---- MODULE Spec2Model ----
(***************************************************************************)
(* A model of the stage-viewer library scripts:                            *)
(*   migrate_setlists_v2.py, migrate_setlists_to_songuid.py  (SpecMig)     *)
(*   consolidate_library.py, consolidate_library_v2.py,                    *)
(*   consolidate_library_songuid_schema_compatible.py,                     *)
(*   consolidate_library_patched_songuid.py                  (SpecAgg)     *)
(*                                                                         *)
(* Text is a sequence of one-character strings, so that strip(),           *)
(* startswith(), str() and sorted() are computed and not assumed.          *)
(* Python's None is the one-element sequence <<"None">>, which no text     *)
(* equals because its element is not a single character.  An Optional[int] *)
(* is <<>> for None and <<n>> for the integer n.                           *)
(***************************************************************************)
EXTENDS Integers, Sequences, FiniteSets, TLC

(* ---------------------------------------------------------------- bounds *)

\* sheets read while the uid -> song_uid lookup is built
MaxSheets == 2
\* references in the setlist document, over all its sets
MaxRefs == 4
\* sheet files an aggregator scans
MaxFiles == 3
\* lines of the text given to the strict tag parser
MaxLines == 3

(* ------------------------------------------------------------------ text *)

None == <<"None">>

NoInt == <<>>

\* the text "None", what str(None) gives
tNoneText == <<"N", "o", "n", "e">>

tUidPrefix == <<"u", "i", "d", "-">>
tUid1   == <<"u", "i", "d", "-", "1">>
tUid2   == <<"u", "i", "d", "-", "2">>
tPadUid2 == <<"u", "i", "d", "-", "2", " ">>
tSongA  == <<"s", "o", "n", "g", "-", "A">>
tSongB  == <<"s", "o", "n", "g", "-", "B">>
tBlank  == <<" ">>

IsSpace(c) == c \in {" ", "\t", "\n", "\r"}

RECURSIVE LStrip(_)
LStrip(s) == IF s # <<>> /\ IsSpace(Head(s)) THEN LStrip(Tail(s)) ELSE s

RECURSIVE RStrip(_)
RStrip(s) ==
    IF s # <<>> /\ IsSpace(s[Len(s)]) THEN RStrip(SubSeq(s, 1, Len(s) - 1)) ELSE s

\* str.strip()
Strip(s) == RStrip(LStrip(s))

\* str.startswith(prefix)
StartsWith(s, prefix) ==
    Len(s) >= Len(prefix) /\ SubSeq(s, 1, Len(prefix)) = prefix

\* bool(v) of an Optional[str]
Truthy(v) == v # None /\ v # <<>>

\* a or b
Or(a, b) == IF Truthy(a) THEN a ELSE b

\* dict.get(k) of a dict given as a function
Get(m, k) == IF k \in DOMAIN m THEN m[k] ELSE None

\* m[k] = v
Put(m, k, v) == [x \in DOMAIN m \cup {k} |-> IF x = k THEN v ELSE m[x]]

EmptyDict == [x \in {} |-> None]

Range(s) == {s[i] : i \in DOMAIN s}

RECURSIVE SeqsUpTo(_, _)
SeqsUpTo(S, n) ==
    IF n = 0 THEN {<<>>}
    ELSE LET shorter == SeqsUpTo(S, n - 1)
         IN  shorter \cup {Append(s, x) : s \in {t \in shorter : Len(t) = n - 1}, x \in S}

\* the characters of the model in code point order
CodePointOrder ==
    << " ", "'", ",", "-", ".", "/",
       "0", "1", "2", "3", "4", "5", "6", "7", "8", "9", ":",
       "A", "B", "C", "D", "E", "F", "G", "H", "I", "J", "K", "L", "M",
       "N", "O", "P", "Q", "R", "S", "T", "U", "V", "W", "X", "Y", "Z", "_",
       "a", "b", "c", "d", "e", "f", "g", "h", "i", "j", "k", "l", "m",
       "n", "o", "p", "q", "r", "s", "t", "u", "v", "w", "x", "y", "z", "{", "}" >>

\* the rank of a character in code point order
Ord(c) == CHOOSE i \in DOMAIN CodePointOrder : CodePointOrder[i] = c

IsUpper(c) == Ord(c) >= Ord("A") /\ Ord(c) <= Ord("Z")

IsDigit(c) == Ord(c) >= Ord("0") /\ Ord(c) <= Ord("9")

\* str.lower()
Lower(s) ==
    [i \in DOMAIN s |->
        IF IsUpper(s[i]) THEN CodePointOrder[Ord(s[i]) - Ord("A") + Ord("a")] ELSE s[i]]

\* a < b for two str
RECURSIVE StrLess(_, _)
StrLess(a, b) ==
    IF b = <<>> THEN FALSE
    ELSE IF a = <<>> THEN TRUE
    ELSE IF Head(a) = Head(b) THEN StrLess(Tail(a), Tail(b))
    ELSE Ord(Head(a)) < Ord(Head(b))

\* a < b for two tuples of str (the sort keys)
RECURSIVE KeyLess(_, _)
KeyLess(a, b) ==
    IF b = <<>> THEN FALSE
    ELSE IF a = <<>> THEN TRUE
    ELSE IF Head(a) = Head(b) THEN KeyLess(Tail(a), Tail(b))
    ELSE StrLess(Head(a), Head(b))

\* list.sort / sorted with a key, on <<key, item>> pairs: stable
RECURSIVE InsertPair(_, _)
InsertPair(sorted, x) ==
    IF sorted = <<>> THEN <<x>>
    ELSE IF KeyLess(x[1], Head(sorted)[1]) THEN <<x>> \o sorted
    ELSE <<Head(sorted)>> \o InsertPair(Tail(sorted), x)

RECURSIVE SortPairs(_, _)
SortPairs(pairs, sorted) ==
    IF pairs = <<>> THEN sorted
    ELSE SortPairs(Tail(pairs), InsertPair(sorted, Head(pairs)))

SortedByKey(items, K(_)) ==
    LET sorted == SortPairs([i \in DOMAIN items |-> <<K(items[i]), items[i]>>], <<>>)
    IN  [i \in DOMAIN sorted |-> sorted[i][2]]

\* sorted() of a set of str
RECURSIVE SortedStrs(_)
SortedStrs(S) ==
    IF S = {} THEN <<>>
    ELSE LET least == CHOOSE x \in S : \A y \in S \ {x} : StrLess(x, y)
         IN  <<least>> \o SortedStrs(S \ {least})

RECURSIVE DigitsValue(_)
DigitsValue(s) ==
    IF s = <<>> THEN 0
    ELSE 10 * DigitsValue(SubSeq(s, 1, Len(s) - 1)) + (Ord(s[Len(s)]) - Ord("0"))

AllDigits(s) == s # <<>> /\ \A i \in DOMAIN s : IsDigit(s[i])

\* parse_int / safe_int: int(str(v).strip()), None when int() raises
\* (the values of the model are unsigned decimal digits or no number at all)
ParseInt(v) ==
    LET t == Strip(IF v = None THEN tNoneText ELSE v)
    IN  IF AllDigits(t) THEN <<DigitsValue(t)>> ELSE NoInt

(* ----------------------------------------------------------------- state *)

VARIABLES
    mig,            \* which script runs: "v2" | "to_songuid"
    mpc,            \* "build" | "sets" | "done"
    nsheets,        \* sheets read so far
    uid_map,        \* uid -> song_uid
    songs_in,       \* st["songs"] of the last set, before
    st_songs,       \* st["songs"] of the last set, after
    changed,
    removed_dupes,  \* migrate_setlists_v2 only
    unresolved,     \* `unresolved` of v2, `missing` (unknown_refs) of to_songuid
    refs_in,        \* references of the input document so far
    refs_out,       \* references of the output document so far
    strs_in,        \* string references of the input document so far
    uid_unmapped_in, \* "uid-..." string references of the input so far with no lookup entry
    unknown_in      \* references of the input so far that the script looks up and does not find

migVars == <<mig, mpc, nsheets, uid_map, songs_in, st_songs, changed, removed_dupes,
             unresolved, refs_in, refs_out, strs_in, uid_unmapped_in, unknown_in>>

\* the state of the aggregators
VARIABLES
    prog,           \* which script runs: "consolidate" | "v2" | "patched"
    apc,            \* "scan" | "done"
    cho_files,      \* the tags of the sheet files scanned so far, in sorted path order
    song_keys,      \* the keys of songs_by_uid / by_song in insertion order
    songs_by_uid,   \* consolidate(): uid -> rec
    missing_uid_files,      \* consolidate(): paths of the files with no identifier
    uidCollisionsPersona,   \* consolidate(): log["counts"]["uidCollisionsPersona"]
    uidsMissing,    \* consolidate(): log["counts"]["uidsMissing"]
    warnings,       \* consolidate(): log["warnings"]
    by_song,        \* v2 / patched: song_uid -> accumulator
    orphan,         \* v2: orphan sheets counted
    orphan_sheets,  \* patched: the orphan sheets
    songs_out       \* the canonical song list written (songs_list of consolidate())

aggVars == <<prog, apc, cho_files, song_keys, songs_by_uid, missing_uid_files,
             uidCollisionsPersona, uidsMissing, warnings, by_song, orphan, orphan_sheets,
             songs_out>>

\* the state of a whole run of a script: its files and the steps of its main()
VARIABLES
    rpc,            \* where main() is: "idle" when no whole run is modelled
    songs_dir,      \* the sheet files of ./songs in path order, Missing when no folder
    listing,        \* the order rglob returns them in: a permutation of their places
    fs,             \* path -> content of the files of ./library
    data,           \* the setlist document in memory
    errors,         \* log["errors"] of consolidate(); the exception a migrator died of
    rc,             \* the outcome of the run: NoRc while it runs
    now,            \* the time of the run
    pending,        \* the writes main() has still to do, in order
    wopen,          \* the first pending write_text has opened its file
    run,            \* 1 for the first run over the files, 2 for the run after it
    kept            \* the files of ./library as the first run left them

runVars == <<rpc, songs_dir, listing, fs, data, errors, rc, now, pending, wopen, run,
            kept>>

VARIABLES
    ppc,            \* where parse_tag_block is: "idle" when no parse is modelled
    text,           \* the text of the sheet handed to parse_tag_block
    lineno,         \* lines of text.splitlines() the loop has taken so far
    block_tags      \* the dict `tags` of parse_tag_block

parseVars == <<ppc, text, lineno, block_tags>>

vars == <<migVars, aggVars, runVars, parseVars>>

\* no migrator runs
MigIdle ==
    /\ mig = "none"
    /\ mpc = "idle"
    /\ nsheets = 0
    /\ uid_map = EmptyDict
    /\ songs_in = <<>>
    /\ st_songs = <<>>
    /\ changed = 0
    /\ removed_dupes = 0
    /\ unresolved = 0
    /\ refs_in = 0
    /\ refs_out = 0
    /\ strs_in = 0
    /\ uid_unmapped_in = 0
    /\ unknown_in = 0

\* no aggregator runs
AggIdle ==
    /\ prog = "none"
    /\ apc = "idle"
    /\ cho_files = <<>>
    /\ song_keys = <<>>
    /\ songs_by_uid = EmptyDict
    /\ missing_uid_files = <<>>
    /\ uidCollisionsPersona = 0
    /\ uidsMissing = 0
    /\ warnings = <<>>
    /\ by_song = EmptyDict
    /\ orphan = 0
    /\ orphan_sheets = <<>>
    /\ songs_out = <<>>

\* songs_dir when ./songs does not exist
Missing == << [kind |-> "missing"] >>

\* the content of a path that does not exist
NoFile == [kind |-> "nofile"]

\* the content of a file that json.loads rejects
Unparseable == [kind |-> "text"]

\* the content of a file opened for writing and not yet written and closed
Truncated == [kind |-> "truncated"]

\* no document in memory
NoDoc == [kind |-> "none"]

\* no exit status yet
NoRc == -1

\* no whole run is modelled
RunIdle ==
    /\ rpc = "idle"
    /\ songs_dir = <<>>
    /\ listing = <<>>
    /\ fs = EmptyDict
    /\ data = NoDoc
    /\ errors = <<>>
    /\ rc = NoRc
    /\ now = 0
    /\ pending = <<>>
    /\ wopen = FALSE
    /\ run = 0
    /\ kept = EmptyDict

\* no text is being parsed
ParseIdle ==
    /\ ppc = "idle"
    /\ text = <<>>
    /\ lineno = 0
    /\ block_tags = EmptyDict

(* ------------------------------------------------- setlist references *)

StrRef(tok) == [kind |-> "str", tok |-> tok, uid |-> None, song_uid |-> None]
ObjRef(u, su) == [kind |-> "obj", tok |-> None, uid |-> u, song_uid |-> su]
NullRef == [kind |-> "null", tok |-> None, uid |-> None, song_uid |-> None]

\* repr of a Python str
Quoted(s) == <<"'">> \o s \o <<"'">>

\* str() of a JSON value of a songs list
PyStr(ref) ==
    CASE ref.kind = "str" -> ref.tok
      [] ref.kind = "null" -> tNoneText
      [] ref.kind = "obj" ->
            <<"{">> \o Quoted(<<"u", "i", "d">>) \o <<":", " ">> \o Quoted(ref.uid)
            \o (IF ref.song_uid = None THEN <<>>
                ELSE <<",", " ">> \o Quoted(<<"s", "o", "n", "g", "_", "u", "i", "d">>)
                     \o <<":", " ">> \o Quoted(ref.song_uid))
            \o <<"}">>

\* the references a set's songs list is drawn from
RefPool ==
    { StrRef(tUid1), StrRef(tUid2), StrRef(tPadUid2), StrRef(tSongA), StrRef(tBlank),
      ObjRef(tUid1, None) }

\* the songs lists of at most n references
RefLists == [n \in 0..MaxRefs |-> SeqsUpTo(RefPool, n)]

\* the {uid:} and {song_uid:} tags of the sheets the lookup is built from
\* (tag values are stripped by the tag parsers; an absent tag is None)
MigSheetPool ==
    { [uid |-> tUid1, song_uid |-> tSongA],
      [uid |-> tUid2, song_uid |-> tSongA],
      [uid |-> tUid2, song_uid |-> None] }

(* ------------------------------------------------------- the migrators *)

\* migrate_setlists_v2.build_uid_to_songuid, one sheet
V2MapSheet(m, sheet) ==
    LET uid == Strip(Or(sheet.uid, <<>>))
        song_uid == Strip(Or(sheet.song_uid, <<>>))
    IN  IF Truthy(uid) /\ Truthy(song_uid) THEN Put(m, uid, song_uid) ELSE m

\* migrate_setlists_to_songuid.build_uid_map, one sheet
SonguidMapSheet(m, sheet) ==
    LET uid == Strip(Or(sheet.uid, <<>>))
        song_uid == Strip(Or(sheet.song_uid, <<>>))
    IN  IF Truthy(uid) THEN Put(m, uid, Or(song_uid, uid)) ELSE m

\* the loop state of one set
LoopStart(c, d, u) ==
    [new_list |-> <<>>, seen |-> {}, changed |-> c, removed_dupes |-> d, unresolved |-> u]

\* migrate_setlists_v2.main: the key a string item is listed under
V2Key(m, item) ==
    LET key0 == Strip(item.tok)
        song_uid == Get(m, key0)
    IN  IF StartsWith(key0, tUidPrefix) /\ Truthy(song_uid) THEN song_uid ELSE key0

\* V2Item without the `if key in seen` test: every key is appended
V2ItemNoDedupe(m, acc, item) ==
    IF item.kind # "str" THEN acc
    ELSE [acc EXCEPT !.new_list = Append(@, V2Key(m, item))]

\* V2Item with the uid lookup moved after the `if key in seen` test: a dropped
\* duplicate is not counted as unresolved
V2ItemCountsAfterDedupe(m, acc, item) ==
    IF item.kind # "str" THEN acc
    ELSE
    LET key0 == Strip(item.tok)
        isUid == StartsWith(key0, tUidPrefix)
        hit == isUid /\ Truthy(Get(m, key0))
        key == V2Key(m, item)
    IN  IF key \in acc.seen
        THEN [acc EXCEPT !.removed_dupes = @ + 1]
        ELSE [acc EXCEPT !.seen = @ \cup {key}, !.new_list = Append(@, key),
                         !.changed = IF hit THEN @ + 1 ELSE @,
                         !.unresolved = IF isUid /\ ~hit THEN @ + 1 ELSE @]

\* V2Item without the isinstance test: a non-string item is listed by its str()
V2ItemKeepsNonStr(m, acc, item) ==
    LET key == IF item.kind = "str" THEN V2Key(m, item) ELSE PyStr(item)
    IN  IF key \in acc.seen
        THEN [acc EXCEPT !.removed_dupes = @ + 1]
        ELSE [acc EXCEPT !.seen = @ \cup {key}, !.new_list = Append(@, key)]

\* migrate_setlists_v2.main, the body of `for item in songs`
V2Item(m, acc, item) ==
    IF item.kind # "str" THEN acc
    ELSE
    LET key0 == Strip(item.tok)
        isUid == StartsWith(key0, tUidPrefix)
        hit == isUid /\ Truthy(Get(m, key0))
        key == V2Key(m, item)
        acc1 == [acc EXCEPT !.changed = IF hit THEN @ + 1 ELSE @,
                            !.unresolved = IF isUid /\ ~hit THEN @ + 1 ELSE @]
    IN  IF key \in acc1.seen
        THEN [acc1 EXCEPT !.removed_dupes = @ + 1]
        ELSE [acc1 EXCEPT !.seen = @ \cup {key}, !.new_list = Append(@, key)]

RECURSIVE V2Loop(_, _, _)
V2Loop(m, acc, songs) ==
    IF songs = <<>> THEN acc ELSE V2Loop(m, V2Item(m, acc, Head(songs)), Tail(songs))

\* migrate_setlists_to_songuid.main: the canonical reference of an item
SonguidCanon(m, item) ==
    LET key == PyStr(item)
        got == Get(m, key)
    IN  IF got = None THEN key ELSE got

\* migrate_setlists_to_songuid.main, the body of `for uid in songs`
SonguidItem(m, acc, item) ==
    LET key == PyStr(item)
        got == Get(m, key)
        canon == SonguidCanon(m, item)
    IN  [acc EXCEPT !.unresolved = IF got = None THEN @ + 1 ELSE @,
                    !.changed = IF canon # key THEN @ + 1 ELSE @,
                    !.new_list = Append(@, canon)]

RECURSIVE SonguidLoop(_, _, _)
SonguidLoop(m, acc, songs) ==
    IF songs = <<>> THEN acc
    ELSE SonguidLoop(m, SonguidItem(m, acc, Head(songs)), Tail(songs))

\* migrate_setlists_to_songuid.dedupe_preserve_order
RECURSIVE DedupeFrom(_, _, _)
DedupeFrom(items, seen, out) ==
    IF items = <<>> THEN out
    ELSE IF Head(items) \in seen THEN DedupeFrom(Tail(items), seen, out)
    ELSE DedupeFrom(Tail(items), seen \cup {Head(items)}, Append(out, Head(items)))

dedupe_preserve_order(items) == DedupeFrom(items, {}, <<>>)

\* json.dumps of a list of str: every element is a JSON string
JsonStrings(keys) == [i \in DOMAIN keys |-> StrRef(keys[i])]

\* a reference that is written as a sheet uid, "uid-..."
IsUidRef(ref) == ref.kind = "str" /\ StartsWith(ref.tok, tUidPrefix)

Count(s, P(_)) == Cardinality({i \in DOMAIN s : P(s[i])})

\* the set's songs list as read from the input document
ReadSet(songs) ==
    LET IsStr(r) == r.kind = "str"
        IsUnmapped(r) == IsUidRef(r) /\ r.tok \notin DOMAIN uid_map
        IsUnknown(r) ==
            IF mig = "v2"
            THEN /\ r.kind = "str"
                 /\ StartsWith(Strip(r.tok), tUidPrefix)
                 /\ Strip(r.tok) \notin DOMAIN uid_map
            ELSE PyStr(r) \notin DOMAIN uid_map
    IN  /\ songs_in' = songs
        /\ refs_in' = refs_in + Len(songs)
        /\ strs_in' = strs_in + Count(songs, IsStr)
        /\ uid_unmapped_in' = uid_unmapped_in + Count(songs, IsUnmapped)
        /\ unknown_in' = unknown_in + Count(songs, IsUnknown)

InitMig ==
    /\ mig \in {"v2", "to_songuid"}
    /\ mpc = "build"
    /\ nsheets = 0
    /\ uid_map = EmptyDict
    /\ songs_in = <<>>
    /\ st_songs = <<>>
    /\ changed = 0
    /\ removed_dupes = 0
    /\ unresolved = 0
    /\ refs_in = 0
    /\ refs_out = 0
    /\ strs_in = 0
    /\ uid_unmapped_in = 0
    /\ unknown_in = 0
    /\ AggIdle
    /\ RunIdle
    /\ ParseIdle

\* one iteration of the loop over the sheet files in build_uid_to_songuid / build_uid_map
BuildUidMapStep(sheet) ==
    /\ mpc = "build"
    /\ nsheets < MaxSheets
    /\ nsheets' = nsheets + 1
    /\ uid_map' = IF mig = "v2" THEN V2MapSheet(uid_map, sheet)
                  ELSE SonguidMapSheet(uid_map, sheet)
    /\ UNCHANGED <<mig, mpc, songs_in, st_songs, changed, removed_dupes,
                   unresolved, refs_in, refs_out, strs_in, uid_unmapped_in, unknown_in,
                   aggVars, runVars,
                   parseVars>>

\* the lookup is complete; main goes on to the document
BuildUidMapDone ==
    /\ mpc = "build"
    /\ mpc' = "sets"
    /\ UNCHANGED <<mig, nsheets, uid_map, songs_in, st_songs, changed,
                   removed_dupes, unresolved, refs_in, refs_out, strs_in,
                   uid_unmapped_in, unknown_in, aggVars, runVars,
                   parseVars>>

\* migrate_setlists_v2.main, one iteration of `for st in col.get("sets", [])`
V2MigrateSet ==
    /\ mig = "v2"
    /\ mpc = "sets"
    /\ \E songs \in RefLists[MaxRefs - refs_in] :
          LET r == V2Loop(uid_map, LoopStart(changed, removed_dupes, unresolved), songs)
          IN  /\ st_songs' = JsonStrings(r.new_list)
              /\ changed' = r.changed
              /\ removed_dupes' = r.removed_dupes
              /\ unresolved' = r.unresolved
              /\ refs_out' = refs_out + Len(r.new_list)
              /\ ReadSet(songs)
    /\ UNCHANGED <<mig, mpc, nsheets, uid_map, aggVars, runVars, parseVars>>

\* migrate_setlists_to_songuid.main, one iteration of `for st in col.get("sets", [])`
SonguidMigrateSet ==
    /\ mig = "to_songuid"
    /\ mpc = "sets"
    /\ \E songs \in RefLists[MaxRefs - refs_in] :
          LET r == SonguidLoop(uid_map, LoopStart(changed, removed_dupes, unresolved), songs)
              deduped == dedupe_preserve_order(r.new_list)
          IN  /\ st_songs' = JsonStrings(deduped)
              /\ changed' = r.changed
              /\ unresolved' = r.unresolved
              /\ refs_out' = refs_out + Len(deduped)
              /\ ReadSet(songs)
    /\ UNCHANGED <<mig, mpc, nsheets, uid_map, removed_dupes, aggVars, runVars,
                   parseVars>>

\* the document is written and the counters are reported
MigrateDone ==
    /\ mpc = "sets"
    /\ mpc' = "done"
    /\ UNCHANGED <<mig, nsheets, uid_map, songs_in, st_songs, changed,
                   removed_dupes, unresolved, refs_in, refs_out, strs_in,
                   uid_unmapped_in, unknown_in, aggVars, runVars,
                   parseVars>>

NextMig ==
    \/ \E sheet \in MigSheetPool : BuildUidMapStep(sheet)
    \/ BuildUidMapDone
    \/ V2MigrateSet
    \/ SonguidMigrateSet
    \/ MigrateDone

SpecMig == InitMig /\ [][NextMig]_vars

(* ------------------------------------------- claims about the migrators *)

LookupValues == {uid_map[k] : k \in DOMAIN uid_map}

OutKeys == [j \in DOMAIN st_songs |-> st_songs[j].tok]

IsStrRef(r) == r.kind = "str"

\* the keys the migrator lists for the last set, in input order
InKeys ==
    IF mig = "v2"
    THEN LET strs == SelectSeq(songs_in, IsStrRef)
         IN  [i \in DOMAIN strs |-> V2Key(uid_map, strs[i])]
    ELSE [i \in DOMAIN songs_in |-> SonguidCanon(uid_map, songs_in[i])]

FirstIdx(keys, k) ==
    CHOOSE i \in DOMAIN keys : keys[i] = k /\ \A h \in 1..(i - 1) : keys[h] # k

\* C1 (as claimed): every output reference of a set is a song_uid of the lookup or
\* is identical to a reference of the set's input list, and none is empty or null.
C1_KnownOrOriginalNeverBlank ==
    \A j \in DOMAIN st_songs :
        /\ st_songs[j].kind # "null"
        /\ st_songs[j].tok # <<>>
        /\ \/ st_songs[j].tok \in LookupValues
           \/ \E i \in DOMAIN songs_in : songs_in[i] = st_songs[j]

NoKeyTwice == \A i, j \in DOMAIN OutKeys : i # j => OutKeys[i] # OutKeys[j]

FirstOccurrenceOrder ==
    /\ Range(OutKeys) = Range(InKeys)
    /\ \A i, j \in DOMAIN OutKeys :
          i < j => FirstIdx(InKeys, OutKeys[i]) < FirstIdx(InKeys, OutKeys[j])

tAdam == <<"A", "d", "a", "m">>
tPete == <<"P", "e", "t", "e">>
tAbe  == <<"A", "b", "e">>
tTest == <<"T", "e", "s", "t">>
tUp   == <<"U", "p">>

\* PREFERRED_PERSONA = "Adam"
PREFERRED_PERSONA == tAdam

\* fallback_key = "_default"
tDefault == <<"_", "d", "e", "f", "a", "u", "l", "t">>

\* the tags no sheet has: tags.get(k) is None for each
NoTags ==
    [uid |-> None, song_uid |-> None, title |-> None, t |-> None, artist |-> None,
     a |-> None, persona |-> None, version |-> None, singer |-> None,
     duration |-> None, tempo |-> None, bpm |-> None, key |-> None, k |-> None,
     capo |-> None, ca |-> None]

\* the tag blocks the scanned sheets are drawn from, as the tag parsers return them
\* (keys lowercased, values stripped)
AggSheetPool ==
    { [NoTags EXCEPT !.song_uid = tSongA, !.uid = tUid1, !.persona = tAdam,
                     !.title = tTest],
      [NoTags EXCEPT !.song_uid = tSongA, !.uid = tUid1, !.persona = tPete,
                     !.title = tTest, !.key = <<"G">>],
      [NoTags EXCEPT !.song_uid = tSongA, !.uid = tUid1, !.persona = tAdam,
                     !.title = tUp, !.artist = <<"X">>, !.singer = <<"S", "u">>,
                     !.duration = <<"3", ":", "3", "5">>, !.tempo = <<"1", "2", "0">>,
                     !.key = <<"A">>, !.capo = <<"2">>],
      [NoTags EXCEPT !.song_uid = tSongA, !.uid = tUid1, !.persona = tAbe,
                     !.title = <<>>, !.artist = <<>>, !.singer = <<>>,
                     !.duration = <<>>, !.tempo = <<"a", "b", "c">>, !.key = <<>>,
                     !.capo = <<>>],
      [NoTags EXCEPT !.song_uid = tSongA, !.artist = <<"Y">>, !.singer = <<"A", "l">>,
                     !.duration = <<"9", "0">>, !.tempo = <<"9", "0">>,
                     !.key = <<"D">>, !.capo = <<"3">>],
      [NoTags EXCEPT !.song_uid = tSongB, !.uid = tUid2, !.persona = tPete,
                     !.title = tUp, !.key = <<"E">>],
      [NoTags EXCEPT !.uid = tUid1, !.persona = tPete, !.title = tUp,
                     !.artist = <<"Y">>],
      [NoTags EXCEPT !.persona = tPete, !.title = tTest],
      [NoTags EXCEPT !.song_uid = tSongB, !.version = tAbe, !.t = tUp, !.a = <<"X">>,
                     !.k = <<"C">>, !.bpm = <<"9", "0">>, !.ca = <<"3">>],
      [NoTags EXCEPT !.song_uid = tSongA, !.uid = tUid2, !.persona = tAdam,
                     !.key = <<"E">>, !.tempo = <<"9", "0">>],
      [NoTags EXCEPT !.song_uid = tSongA, !.persona = tAdam, !.title = tTest] }

\* p.stem of the i-th file in sorted path order
Stem(i) == <<CodePointOrder[Ord("0") + i]>>

\* relpath of the i-th file in sorted path order: songs/<i>.cho
Path(i) == <<"s", "o", "n", "g", "s", "/">> \o Stem(i) \o <<".", "c", "h", "o">>

(* ------------------------------------- consolidate_library.consolidate() *)

\* meta_from_tags
meta_from_tags(tags) ==
    [uid |-> Or(tags.uid, tags.song_uid),
     title |-> tags.title,
     artist |-> tags.artist,
     persona |-> tags.persona,
     singer |-> tags.singer,
     duration |-> tags.duration,
     tempo |-> IF tags.tempo # None THEN ParseInt(tags.tempo) ELSE NoInt,
     key |-> tags.key,
     capo |-> IF tags.capo # None THEN ParseInt(tags.capo) ELSE NoInt]

\* (x or "").strip() or None
StripOrNone(x) ==
    LET t == Strip(Or(x, <<>>)) IN IF Truthy(t) THEN t ELSE None

\* the fields the fill-gap loop goes over; tempo and capo hold an Optional[int]
StrFields == {"title", "artist", "singer", "duration", "key"}
IntFields == {"tempo", "capo"}
MergeFields == StrFields \cup IntFields

\* v in (None, "") for the value of field f
IsGap(f, v) == IF f \in IntFields THEN v = NoInt ELSE v = None \/ v = <<>>

\* consolidate(): the rec of a uid seen for the first time
ConsNewRec(uid, meta) ==
    [uid |-> uid, title |-> meta.title, artist |-> meta.artist, personas |-> <<>>,
     singer |-> meta.singer, duration |-> meta.duration, tempo |-> meta.tempo,
     key |-> meta.key, capo |-> meta.capo, files |-> EmptyDict]

\* the fill-gap loop with the test on the current value left out: a later value wins
ConsFillGapsOverwrite(rec, meta) ==
    [f \in DOMAIN rec |->
        IF f \in MergeFields /\ ~IsGap(f, meta[f]) THEN meta[f] ELSE rec[f]]

\* consolidate(): "Fill gaps only (stable)"
ConsFillGaps(rec, meta) ==
    [f \in DOMAIN rec |->
        IF f \in MergeFields /\ IsGap(f, rec[f]) /\ ~IsGap(f, meta[f])
        THEN meta[f] ELSE rec[f]]

Warning(kind, uid, path) == [kind |-> kind, uid |-> uid, path |-> path]

\* the persona bookkeeping with `rec["files"][persona] = this_path` run always
ConsTrackPersonaLastWins(rec, uid, persona, this_path) ==
    IF persona # None
    THEN [rec |-> [rec EXCEPT !.personas = IF persona \in Range(@) THEN @ ELSE Append(@, persona),
                              !.files = Put(@, persona, this_path)],
          collisions |-> 0, warnings |-> <<>>]
    ELSE [rec |-> IF tDefault \in DOMAIN rec.files THEN rec
                  ELSE [rec EXCEPT !.files = Put(@, tDefault, this_path)],
          collisions |-> 0,
          warnings |-> IF tDefault \in DOMAIN rec.files THEN <<>>
                       ELSE <<Warning("fallback", uid, this_path)>>]

\* the persona bookkeeping with the `persona not in rec["personas"]` test left out
ConsTrackPersonaAppendsAlways(rec, uid, persona, this_path) ==
    IF persona # None
    THEN LET rec1 == [rec EXCEPT !.personas = Append(@, persona)]
             existing == Get(rec1.files, persona)
         IN  IF Truthy(existing) /\ existing # this_path
             THEN [rec |-> rec1, collisions |-> 1,
                   warnings |-> <<Warning("collision", uid, this_path)>>]
             ELSE [rec |-> [rec1 EXCEPT !.files = Put(@, persona, this_path)],
                   collisions |-> 0, warnings |-> <<>>]
    ELSE IF tDefault \notin DOMAIN rec.files
         THEN [rec |-> [rec EXCEPT !.files = Put(@, tDefault, this_path)],
               collisions |-> 0,
               warnings |-> <<Warning("fallback", uid, this_path)>>]
         ELSE [rec |-> rec, collisions |-> 0, warnings |-> <<>>]

\* consolidate(): "Track persona -> file"
ConsTrackPersona(rec, uid, persona, this_path) ==
    IF persona # None
    THEN LET rec1 == [rec EXCEPT !.personas =
                         IF persona \in Range(@) THEN @ ELSE Append(@, persona)]
             existing == Get(rec1.files, persona)
         IN  IF Truthy(existing) /\ existing # this_path
             THEN [rec |-> rec1, collisions |-> 1,
                   warnings |-> <<Warning("collision", uid, this_path)>>]
             ELSE [rec |-> [rec1 EXCEPT !.files = Put(@, persona, this_path)],
                   collisions |-> 0, warnings |-> <<>>]
    ELSE IF tDefault \notin DOMAIN rec.files
         THEN [rec |-> [rec EXCEPT !.files = Put(@, tDefault, this_path)],
               collisions |-> 0,
               warnings |-> <<Warning("fallback", uid, this_path)>>]
         ELSE [rec |-> rec, collisions |-> 0, warnings |-> <<>>]

\* consolidate(): the missing-title and missing-artist warnings of a sheet
ConsMissingTagWarnings(meta, uid, this_path) ==
    (IF ~Truthy(meta.title) THEN <<Warning("no_title", uid, this_path)>> ELSE <<>>)
    \o (IF ~Truthy(meta.artist) THEN <<Warning("no_artist", uid, this_path)>> ELSE <<>>)

\* the identifier consolidate() files a sheet under, None when it has none
ConsUid(tags) == StripOrNone(meta_from_tags(tags).uid)

\* the preview cap of the warning lists: missing_uid_files[:50]
WarnCap == 50

\* the sort key of songs_list
ConsSortKey(r) == <<Or(r.title, <<>>), Or(r.artist, <<>>), r.uid>>

InitAgg ==
    /\ prog \in {"consolidate", "v2", "patched"}
    /\ apc = "scan"
    /\ cho_files = <<>>
    /\ song_keys = <<>>
    /\ songs_by_uid = EmptyDict
    /\ missing_uid_files = <<>>
    /\ uidCollisionsPersona = 0
    /\ uidsMissing = 0
    /\ warnings = <<>>
    /\ by_song = EmptyDict
    /\ orphan = 0
    /\ orphan_sheets = <<>>
    /\ songs_out = <<>>
    /\ MigIdle
    /\ RunIdle
    /\ ParseIdle

\* consolidate(), one iteration of `for f in cho_files`
ConsolidateSheet(tags) ==
    /\ prog = "consolidate"
    /\ apc = "scan"
    /\ Len(cho_files) < MaxFiles
    /\ cho_files' = Append(cho_files, tags)
    /\ LET this_path == Path(Len(cho_files) + 1)
           meta == meta_from_tags(tags)
           persona == StripOrNone(meta.persona)
           uid == StripOrNone(meta.uid)
       IN  IF uid = None
           THEN /\ missing_uid_files' = Append(missing_uid_files, this_path)
                /\ UNCHANGED <<song_keys, songs_by_uid, uidCollisionsPersona, warnings>>
           ELSE LET isNew == uid \notin DOMAIN songs_by_uid
                    rec0 == IF isNew THEN ConsNewRec(uid, meta) ELSE songs_by_uid[uid]
                    rec1 == ConsFillGaps(rec0, meta)
                    tracked == ConsTrackPersona(rec1, uid, persona, this_path)
                IN  /\ songs_by_uid' = Put(songs_by_uid, uid, tracked.rec)
                    /\ song_keys' = IF isNew THEN Append(song_keys, uid) ELSE song_keys
                    /\ uidCollisionsPersona' = uidCollisionsPersona + tracked.collisions
                    /\ warnings' = warnings \o tracked.warnings
                                   \o ConsMissingTagWarnings(meta, uid, this_path)
                    /\ UNCHANGED missing_uid_files
    /\ UNCHANGED <<prog, apc, uidsMissing, by_song, orphan, orphan_sheets, songs_out,
                   migVars, runVars, parseVars>>

\* consolidate(), after the scan: the counts, the missing-UID warnings, songs_list
ConsolidateFinish ==
    /\ prog = "consolidate"
    /\ apc = "scan"
    /\ apc' = "done"
    /\ uidsMissing' = Len(missing_uid_files)
    /\ warnings' =
          warnings
          \o [i \in 1..(IF Len(missing_uid_files) < WarnCap THEN Len(missing_uid_files)
                        ELSE WarnCap) |->
                Warning("missing_uid", None, missing_uid_files[i])]
          \o (IF Len(missing_uid_files) > WarnCap
              THEN <<Warning("more_missing", None, None)>> ELSE <<>>)
    /\ songs_out' =
          SortedByKey([i \in DOMAIN song_keys |-> songs_by_uid[song_keys[i]]], ConsSortKey)
    /\ UNCHANGED <<prog, cho_files, song_keys, songs_by_uid, missing_uid_files,
                   uidCollisionsPersona, by_song, orphan, orphan_sheets, migVars, runVars,
                   parseVars>>

(* ------------- consolidate_library_v2 / _songuid_schema_compatible main() *)

\* song_uid = (tags.get("song_uid") or "").strip(), with the sheet uid as a fallback
V2SongUidOrUid(tags) == Strip(Or(Or(tags.song_uid, tags.uid), <<>>))

\* song_uid = (tags.get("song_uid") or "").strip()
V2SongUid(tags) == Strip(Or(tags.song_uid, <<>>))

\* the fields main() reads from the tags of one sheet
V2Fields(tags, stem) ==
    [uid |-> Strip(Or(tags.uid, <<>>)),
     title |-> Or(Or(tags.title, tags.t), stem),
     artist |-> Or(Or(tags.artist, tags.a), <<>>),
     persona |-> Or(Or(tags.persona, tags.version), <<>>),
     singer |-> Or(tags.singer, <<>>),
     duration |-> Or(tags.duration, <<>>),
     tempo |-> ParseInt(Or(Or(tags.tempo, tags.bpm), <<>>)),
     capo |-> Or(Or(tags.capo, tags.ca), <<>>),
     key |-> Or(Or(tags.key, tags.k), <<>>)]

\* the accumulator of a song_uid seen for the first time
V2NewAcc(song_uid, fields) ==
    [song_uid |-> song_uid, title |-> fields.title, artist |-> fields.artist,
     personas |-> {}, files |-> EmptyDict, sheet_uids |-> EmptyDict,
     meta_by_persona |-> EmptyDict, meta_keys |-> <<>>]

\* an entry of meta_by_persona
V2Meta(fields) ==
    [uid |-> fields.uid, singer |-> fields.singer, duration |-> fields.duration,
     tempo |-> fields.tempo, capo |-> fields.capo, key |-> fields.key]

\* main(): the persona bookkeeping of one sheet; a sheet with no persona goes to ""
V2Track(acc, fields, path) ==
    LET slot == IF Truthy(fields.persona) THEN fields.persona ELSE <<>>
    IN  [acc EXCEPT
            !.personas = IF Truthy(fields.persona) THEN @ \cup {fields.persona} ELSE @,
            !.files = Put(@, slot, path),
            !.sheet_uids = IF Truthy(fields.uid) THEN Put(@, slot, fields.uid) ELSE @,
            !.meta_keys = IF slot \in DOMAIN acc.meta_by_persona THEN @ ELSE Append(@, slot),
            !.meta_by_persona = Put(@, slot, V2Meta(fields))]

\* the representative persona chosen as the last of the sorted personas
V2RepPersonaLast(personas) ==
    IF personas # <<>> THEN personas[Len(personas)] ELSE <<>>

\* main(): rep_persona, from the sorted personas
V2RepPersona(personas) ==
    IF PREFERRED_PERSONA \in Range(personas) THEN PREFERRED_PERSONA
    ELSE IF personas # <<>> THEN personas[1] ELSE <<>>

\* rep_meta.get(...) of the empty dict
V2NoMeta ==
    [uid |-> None, singer |-> None, duration |-> None, tempo |-> NoInt, capo |-> None,
     key |-> None]

\* main(): rep_meta
V2RepMeta(acc, rep_persona) ==
    IF rep_persona \in DOMAIN acc.meta_by_persona THEN acc.meta_by_persona[rep_persona]
    ELSE IF acc.meta_keys # <<>> THEN acc.meta_by_persona[acc.meta_keys[1]]
    ELSE V2NoMeta

\* main(): the canonical song of an accumulator
V2Song(acc) ==
    LET personas == SortedStrs({p \in acc.personas : Truthy(p)})
        rep_persona == V2RepPersona(personas)
        rep_meta == V2RepMeta(acc, rep_persona)
    IN  [song_uid |-> acc.song_uid,
         uid |-> Or(rep_meta.uid, <<>>),
         title |-> acc.title,
         artist |-> acc.artist,
         personas |-> personas,
         singer |-> Or(rep_meta.singer, <<>>),
         duration |-> Or(rep_meta.duration, <<>>),
         tempo |-> rep_meta.tempo,
         key |-> Or(rep_meta.key, <<>>),
         capo |-> Or(rep_meta.capo, <<>>),
         files |-> acc.files,
         sheet_uids |-> acc.sheet_uids]

\* the sort key of songs_out
V2SortKey(s) == <<Lower(s.artist), Lower(s.title)>>

\* main(), one iteration of `for i, p in enumerate(files, start=1)`
V2Sheet(tags) ==
    /\ prog = "v2"
    /\ apc = "scan"
    /\ Len(cho_files) < MaxFiles
    /\ cho_files' = Append(cho_files, tags)
    /\ LET i == Len(cho_files) + 1
           song_uid == V2SongUid(tags)
           fields == V2Fields(tags, Stem(i))
       IN  IF ~Truthy(song_uid)
           THEN /\ orphan' = orphan + 1
                /\ UNCHANGED <<by_song, song_keys>>
           ELSE LET isNew == song_uid \notin DOMAIN by_song
                    acc == IF isNew THEN V2NewAcc(song_uid, fields) ELSE by_song[song_uid]
                IN  /\ by_song' = Put(by_song, song_uid, V2Track(acc, fields, Path(i)))
                    /\ song_keys' = IF isNew THEN Append(song_keys, song_uid) ELSE song_keys
                    /\ UNCHANGED orphan
    /\ UNCHANGED <<prog, apc, songs_by_uid, missing_uid_files, uidCollisionsPersona,
                   uidsMissing, warnings, orphan_sheets, songs_out, migVars, runVars,
                   parseVars>>

\* main(), after the scan: the canonical list, sorted
V2Finish ==
    /\ prog = "v2"
    /\ apc = "scan"
    /\ apc' = "done"
    /\ songs_out' =
          SortedByKey([i \in DOMAIN song_keys |-> V2Song(by_song[song_keys[i]])], V2SortKey)
    /\ UNCHANGED <<prog, cho_files, song_keys, songs_by_uid, missing_uid_files,
                   uidCollisionsPersona, uidsMissing, warnings, by_song, orphan,
                   orphan_sheets, migVars, runVars, parseVars>>

(* ---------------------------- consolidate_library_patched_songuid main() *)

\* the place of the first ":" of s, 0 when it has none
RECURSIVE ColonFrom(_, _)
ColonFrom(s, i) ==
    IF i > Len(s) THEN 0 ELSE IF s[i] = ":" THEN i ELSE ColonFrom(s, i + 1)

\* parse_duration_to_seconds: m:ss or mm:ss, else seconds
parse_duration_to_seconds(v) ==
    LET t == Strip(Or(v, <<>>))
        c == ColonFrom(t, 1)
        mins == RStrip(SubSeq(t, 1, c - 1))
        secs == LStrip(SubSeq(t, c + 1, Len(t)))
    IN  IF t = <<>> THEN NoInt
        ELSE IF c > 0 /\ AllDigits(mins) /\ AllDigits(secs) /\ Len(secs) <= 2
        THEN <<DigitsValue(mins) * 60 + DigitsValue(secs)>>
        ELSE ParseInt(t)

\* main(): the sheet record of one file
PatchedSheetRecord(tags, i) ==
    LET sheet_uid == Strip(IF tags.uid = None THEN <<>> ELSE tags.uid)
        song_uid == Strip(IF tags.song_uid = None THEN <<>> ELSE tags.song_uid)
        tempo == Or(Or(tags.tempo, tags.bpm), <<>>)
    IN  [uid |-> Or(sheet_uid, None),
         song_uid |-> Or(song_uid, None),
         title |-> Or(Or(tags.title, tags.t), Stem(i)),
         artist |-> Or(Or(tags.artist, tags.a), <<>>),
         persona |-> Or(Or(tags.persona, tags.version), <<>>),
         singer |-> Or(tags.singer, <<>>),
         tempo |-> IF Truthy(tempo) THEN ParseInt(tempo) ELSE NoInt,
         duration_s |-> parse_duration_to_seconds(
                            IF tags.duration = None THEN <<>> ELSE tags.duration),
         capo |-> Or(Or(tags.capo, tags.ca), <<>>),
         key |-> Or(Or(tags.key, tags.k), <<>>),
         path |-> Path(i)]

\* main(): the entry of a song_uid seen for the first time
PatchedNewEntry(sheet) ==
    [song_uid |-> sheet.song_uid, title |-> sheet.title, artist |-> sheet.artist,
     versions |-> <<>>, personas |-> {}, paths |-> <<>>]

\* main(): one sheet added to its entry
PatchedAdd(entry, sheet) ==
    [entry EXCEPT !.versions = Append(@, sheet),
                  !.personas = IF Truthy(sheet.persona) THEN @ \cup {sheet.persona} ELSE @,
                  !.paths = Append(@, sheet.path)]

\* main(): "finalize sets -> lists" of one entry
PatchedSong(entry) ==
    LET rep == IF entry.versions # <<>> THEN entry.versions[1]
               ELSE [duration_s |-> NoInt, tempo |-> NoInt]
    IN  [song_uid |-> entry.song_uid, title |-> entry.title, artist |-> entry.artist,
         versions |-> entry.versions,
         personas |-> SortedStrs(entry.personas),
         paths |-> SortedStrs(Range(entry.paths)),
         duration_s |-> rep.duration_s,
         tempo |-> rep.tempo]

\* main(), one iteration of `for idx, p in enumerate(files, start=1)`
PatchedSheet(tags) ==
    /\ prog = "patched"
    /\ apc = "scan"
    /\ Len(cho_files) < MaxFiles
    /\ cho_files' = Append(cho_files, tags)
    /\ LET sheet == PatchedSheetRecord(tags, Len(cho_files) + 1)
       IN  IF ~Truthy(sheet.song_uid)
           THEN /\ orphan_sheets' = Append(orphan_sheets, sheet)
                /\ UNCHANGED <<by_song, song_keys>>
           ELSE LET isNew == sheet.song_uid \notin DOMAIN by_song
                    entry == IF isNew THEN PatchedNewEntry(sheet)
                             ELSE by_song[sheet.song_uid]
                IN  /\ by_song' = Put(by_song, sheet.song_uid, PatchedAdd(entry, sheet))
                    /\ song_keys' = IF isNew THEN Append(song_keys, sheet.song_uid)
                                    ELSE song_keys
                    /\ UNCHANGED orphan_sheets
    /\ UNCHANGED <<prog, apc, songs_by_uid, missing_uid_files, uidCollisionsPersona,
                   uidsMissing, warnings, orphan, songs_out, migVars, runVars,
                   parseVars>>

\* main(), after the scan: the song list, sorted
PatchedFinish ==
    /\ prog = "patched"
    /\ apc = "scan"
    /\ apc' = "done"
    /\ songs_out' =
          SortedByKey([i \in DOMAIN song_keys |-> PatchedSong(by_song[song_keys[i]])],
                      V2SortKey)
    /\ UNCHANGED <<prog, cho_files, song_keys, songs_by_uid, missing_uid_files,
                   uidCollisionsPersona, uidsMissing, warnings, by_song, orphan,
                   orphan_sheets, migVars, runVars, parseVars>>

NextAgg ==
    \/ \E tags \in AggSheetPool : ConsolidateSheet(tags)
    \/ ConsolidateFinish
    \/ \E tags \in AggSheetPool : V2Sheet(tags)
    \/ V2Finish
    \/ \E tags \in AggSheetPool : PatchedSheet(tags)
    \/ PatchedFinish

SpecAgg == InitAgg /\ [][NextAgg]_vars

(* ------------------------------------------- claims about the aggregators *)

\* the identifier a sheet is grouped under, read off its tags: consolidate() takes
\* uid and then song_uid, the song_uid-keyed aggregators take song_uid
SheetIdentifier(tags) ==
    IF prog = "consolidate"
    THEN IF Truthy(tags.uid) THEN tags.uid
         ELSE IF Truthy(tags.song_uid) THEN tags.song_uid ELSE None
    ELSE IF Truthy(tags.song_uid) THEN tags.song_uid ELSE None

\* the persona tag of a sheet, None when it has none: consolidate() reads persona,
\* the song_uid-keyed aggregators read persona and then its alias version
SheetPersona(tags) ==
    IF Truthy(tags.persona) THEN tags.persona
    ELSE IF prog # "consolidate" /\ Truthy(tags.version) THEN tags.version ELSE None

\* the scanned sheets filed under identifier id, by their place in sorted path order
SheetsOf(id) == {i \in DOMAIN cho_files : SheetIdentifier(cho_files[i]) = id}

Least(S) == CHOOSE i \in S : \A j \in S : i <= j

\* the first sheet of id whose value of field f is non-empty, 0 when none is
FirstWithValue(id, f) ==
    LET having == {i \in SheetsOf(id) : ~IsGap(f, meta_from_tags(cho_files[i])[f])}
    IN  IF having = {} THEN 0 ELSE Least(having)

\* rec holds, in field f, the value of the first sheet of its uid that has one
FirstValueKept(rec, f) ==
    LET i == FirstWithValue(rec.uid, f)
    IN  IF i = 0 THEN IsGap(f, rec[f]) ELSE rec[f] = meta_from_tags(cho_files[i])[f]

\* C3: in consolidate(), each of title, artist, singer, duration, tempo, key, capo of a
\* canonical record is the value of the first sheet of its identifier, in sorted path
\* order, whose value is non-empty, and is empty only when every sheet's value is
\* empty; a later sheet never overwrites a non-empty value.
C3_FirstNonEmptyWins ==
    prog = "consolidate" =>
        /\ \A id \in DOMAIN songs_by_uid : \A f \in MergeFields :
              FirstValueKept(songs_by_uid[id], f)
        /\ \A k \in DOMAIN songs_out : \A f \in MergeFields :
              FirstValueKept(songs_out[k], f)

\* three sheets of one uid: the first has no key, the second and the third have
\* different keys, and the written record has the second sheet's key
C3_Witness ==
    /\ prog = "consolidate"
    /\ apc = "done"
    /\ \E k \in DOMAIN songs_out :
          /\ SheetsOf(songs_out[k].uid) = {1, 2, 3}
          /\ cho_files[1].key = None
          /\ Truthy(cho_files[2].key)
          /\ Truthy(cho_files[3].key)
          /\ cho_files[3].key # cho_files[2].key
          /\ songs_out[k].key = cho_files[2].key

\* the distinct non-empty persona tags of the sheets of id
PersonaTagsOf(id) == {SheetPersona(cho_files[i]) : i \in SheetsOf(id)} \ {None}

\* the representative persona of a set of personas, "" for the fallback entry
Representative(P) ==
    IF PREFERRED_PERSONA \in P THEN PREFERRED_PERSONA
    ELSE IF P # {} THEN CHOOSE p \in P : \A q \in P \ {p} : StrLess(p, q)
    ELSE <<>>

\* the sheets of id that carry persona p; the fallback entry "" is carried by the
\* sheets with no persona
Carriers(id, p) ==
    {i \in SheetsOf(id) :
        IF p = <<>> THEN SheetPersona(cho_files[i]) = None
        ELSE SheetPersona(cho_files[i]) = p}

\* song s has its uid, singer, duration, tempo, key and capo from sheet i
RepresentedBy(s, i) ==
    LET fields == V2Fields(cho_files[i], Stem(i))
    IN  /\ s.uid = fields.uid
        /\ s.singer = fields.singer
        /\ s.duration = fields.duration
        /\ s.tempo = fields.tempo
        /\ s.key = fields.key
        /\ s.capo = fields.capo

\* C4: in the song_uid-keyed aggregators the representative persona of a song is
\* PREFERRED_PERSONA when it is among the song's personas, else the lexicographically
\* first persona, else the fallback entry, and the emitted uid, singer, duration,
\* tempo, key and capo all come from one sheet carrying that persona.
C4_RepresentativeFromOnePersona ==
    (prog = "v2" /\ apc = "done") =>
        \A k \in DOMAIN songs_out :
            LET s == songs_out[k]
                rep == Representative(PersonaTagsOf(s.song_uid))
            IN  \E i \in Carriers(s.song_uid, rep) : RepresentedBy(s, i)

\* a song with a sheet of Adam that has no key and a sheet of Pete in key G: the
\* emitted personas are Adam and Pete and the emitted key is empty
C4_Witness ==
    /\ prog = "v2"
    /\ apc = "done"
    /\ \E k \in DOMAIN songs_out :
          /\ songs_out[k].personas = <<tAdam, tPete>>
          /\ \E i, j \in SheetsOf(songs_out[k].song_uid) :
                /\ SheetPersona(cho_files[i]) = tAdam
                /\ cho_files[i].key = None
                /\ SheetPersona(cho_files[j]) = tPete
                /\ cho_files[j].key = <<"G">>
          /\ \A i \in SheetsOf(songs_out[k].song_uid) :
                SheetPersona(cho_files[i]) = tAdam => cho_files[i].key = None
          /\ songs_out[k].key = <<>>

\* the places, in sorted path order, of the scanned sheets with no non-empty song_uid
NoSongUidSheets == {i \in DOMAIN cho_files : ~Truthy(cho_files[i].song_uid)}

\* the places of the scanned sheets the aggregator finds no identifier on
NoIdentifierSheets == {i \in DOMAIN cho_files : SheetIdentifier(cho_files[i]) = None}

\* the orphan/missing counter of the running aggregator
OrphanCounter ==
    IF prog = "consolidate" THEN Len(missing_uid_files)
    ELSE IF prog = "v2" THEN orphan
    ELSE Len(orphan_sheets)

\* every path held by an entry of the index or of the written songs list
IndexedPaths ==
    UNION ({Range(songs_by_uid[id].files) : id \in DOMAIN songs_by_uid}
           \cup {IF prog = "patched" THEN Range(by_song[id].paths)
                 ELSE Range(by_song[id].files) : id \in DOMAIN by_song}
           \cup {IF prog = "patched" THEN Range(songs_out[k].paths)
                 ELSE Range(songs_out[k].files) : k \in DOMAIN songs_out})

\* the sheets of S are counted one by one and none of their paths is indexed
OrphansCountedAndUnfiled(S) ==
    /\ OrphanCounter = Cardinality(S)
    /\ \A i \in S : Path(i) \notin IndexedPaths
    /\ (prog = "consolidate" /\ apc = "done") => uidsMissing = Cardinality(S)

\* this step scanned one more sheet
ScannedSheet == Len(cho_files') = Len(cho_files) + 1

\* this step left every entry of the index as it was
IndexUntouched == UNCHANGED <<songs_by_uid, by_song, song_keys>>

NoDuplicates(list) == Cardinality(Range(list)) = Len(list)

\* C6: the personas of a canonical song are the distinct non-empty persona tags of
\* the sheets sharing its identifier, each exactly once and nothing else, whatever
\* the order the sheets are processed in.
C6_PersonasAreTheDistinctTags ==
    /\ prog = "consolidate" =>
          \A id \in DOMAIN songs_by_uid :
              /\ Range(songs_by_uid[id].personas) = PersonaTagsOf(id)
              /\ NoDuplicates(songs_by_uid[id].personas)
    /\ prog \in {"v2", "patched"} =>
          \A id \in DOMAIN by_song : by_song[id].personas = PersonaTagsOf(id)
    /\ \A k \in DOMAIN songs_out :
          LET id == IF prog = "consolidate" THEN songs_out[k].uid
                    ELSE songs_out[k].song_uid
          IN  /\ Range(songs_out[k].personas) = PersonaTagsOf(id)
              /\ NoDuplicates(songs_out[k].personas)
    /\ apc = "done" =>
          {IF prog = "consolidate" THEN songs_out[k].uid ELSE songs_out[k].song_uid :
              k \in DOMAIN songs_out}
          = {SheetIdentifier(cho_files[i]) : i \in DOMAIN cho_files} \ {None}

\* a written song of three sheets: Pete, then Adam, then Pete again, and a sheet
\* order in which the personas were met in the other order than they sort
C6_Witness ==
    /\ apc = "done"
    /\ \E k \in DOMAIN songs_out :
          /\ Len(songs_out[k].personas) = 2
          /\ Range(songs_out[k].personas) = {tAdam, tPete}
          /\ Len(cho_files) = 3
          /\ \A i \in 1..3 :
                SheetPersona(cho_files[i]) = (IF i = 2 THEN tAdam ELSE tPete)
          /\ \A i \in 1..3 : i \in SheetsOf(IF prog = "consolidate" THEN songs_out[k].uid
                                           ELSE songs_out[k].song_uid)

\* the first sheet of id that carries persona p
FirstCarrier(id, p) == Least({i \in SheetsOf(id) : SheetPersona(cho_files[i]) = p})

\* C7: in the song_uid-keyed aggregators files[persona] of a song is the path of the
\* first sheet, in sorted path order, with that song_uid and persona; no later sheet
\* changes the binding.
C7_FirstPathWins ==
    prog = "v2" =>
        \A id \in DOMAIN by_song : \A p \in DOMAIN by_song[id].files \ {<<>>} :
            by_song[id].files[p] = Path(FirstCarrier(id, p))

\* the sheets that arrive with their identifier and persona already bound to a path
Collisions ==
    {i \in DOMAIN cho_files :
        /\ SheetIdentifier(cho_files[i]) # None
        /\ SheetPersona(cho_files[i]) # None
        /\ \E j \in 1..(i - 1) :
              /\ SheetIdentifier(cho_files[j]) = SheetIdentifier(cho_files[i])
              /\ SheetPersona(cho_files[j]) = SheetPersona(cho_files[i])}

\* C8: in consolidate(), a sheet whose identifier and persona are already bound to
\* another path leaves files[persona] at the first-bound path, adds exactly 1 to
\* uidCollisionsPersona and one warning, and the scan goes on; uidCollisionsPersona
\* is the number of sheets that arrived with an already-bound pair.
C8_CollisionsKeepFirstAndAreCounted ==
    prog = "consolidate" =>
        /\ uidCollisionsPersona = Cardinality(Collisions)
        /\ {w.path : w \in {x \in Range(warnings) : x.kind = "collision"}}
           = {Path(i) : i \in Collisions}
        /\ Cardinality({n \in DOMAIN warnings : warnings[n].kind = "collision"})
           = Cardinality(Collisions)
        /\ \A id \in DOMAIN songs_by_uid :
              \A p \in DOMAIN songs_by_uid[id].files \ {tDefault} :
                  songs_by_uid[id].files[p] = Path(FirstCarrier(id, p))
        /\ \A i \in DOMAIN cho_files :
              SheetIdentifier(cho_files[i]) # None
                  => SheetIdentifier(cho_files[i]) \in DOMAIN songs_by_uid

\* the second sheet collides with the first, the first keeps the binding, and the
\* third sheet is scanned and indexed under another identifier
C8_Witness ==
    /\ prog = "consolidate"
    /\ apc = "done"
    /\ Collisions = {2}
    /\ uidCollisionsPersona = 1
    /\ songs_by_uid[SheetIdentifier(cho_files[2])].files[SheetPersona(cho_files[2])]
       = Path(1)
    /\ Len(cho_files) = 3
    /\ SheetIdentifier(cho_files[3]) \in DOMAIN songs_by_uid \ {SheetIdentifier(cho_files[2])}

(* ------------------------------------------------ the setlist document *)

tGig1 == <<"g", "i", "g", "1">>
tLive == <<"L", "i", "v", "e">>
tGig == <<"g", "i", "g">>
tUnnamed == <<"U", "n", "n", "a", "m", "e", "d">>

\* the paths of ./library
IN_FILE == "library/setlists.json"
\* the output written in place: the path of the input
InPlace == "library/setlists.json"

OUT_FILE == "library/setlists.v2.json"
OUT_MIGRATED == "library/setlists.migrated.json"
OUT_MIGRATE_LOG == "library/migrate_setlists.log.json"
OUT_SONGS == "library/songs.index.json"
OUT_LIBRARY == "library/library.index.json"
OUT_LOG == "library/consolidate.log.json"
OUT_SONGS_V2 == "library/songs.index.v2.json"
OUT_LIB_V2 == "library/library.index.v2.json"
OUT_SONGS_V2_TMP == "library/songs.index.v2.json.tmp"
OUT_LIB_V2_TMP == "library/library.index.v2.json.tmp"

LibraryPaths ==
    {IN_FILE, OUT_FILE, OUT_MIGRATED, OUT_MIGRATE_LOG, OUT_SONGS, OUT_LIBRARY, OUT_LOG,
     OUT_SONGS_V2, OUT_LIB_V2, OUT_SONGS_V2_TMP, OUT_LIB_V2_TMP}

\* an entry of "setlists" or of "collections" with the keys it has; the value under
\* a key it lacks is not read
Entry(keys, id, type, name, sets) ==
    [keys |-> keys, id |-> id, type |-> type, name |-> name, notes |-> <<>>,
     sets |-> sets]

\* dict.get(k) of an entry for a str value
EntryGet(entry, k) == IF k \in entry.keys THEN entry[k] ELSE None

\* the sets of an entry: one set, ["uid-1", "uid-2", "uid-1"]
OneSet == << [songs |-> <<StrRef(tUid1), StrRef(tUid2), StrRef(tUid1)>>] >>

\* a JSON object read from setlists.json with the keys it has
SetlistDoc(keys, collections, setlists) ==
    [kind |-> "dict", keys |-> keys, version |-> 1, updated |-> 0,
     collections |-> collections, setlists |-> setlists]

\* the canonical shape {version, collections}, the legacy shape {version, setlists}
ShapeA(collections) == SetlistDoc({"version", "collections"}, collections, <<>>)
ShapeB(setlists) == SetlistDoc({"version", "setlists"}, <<>>, setlists)

\* what library/setlists.json holds when the run starts
SetlistFilePool ==
    { NoFile, Unparseable, SetlistDoc({"version"}, <<>>, <<>>),
      ShapeA(<< Entry({"id", "type", "name", "sets"}, tGig1, tGig, tLive, OneSet) >>),
      ShapeB(<< Entry({"id", "sets"}, tGig1, <<>>, <<>>, OneSet) >>),
      ShapeB(<< Entry({"name", "sets"}, <<>>, <<>>, tLive, OneSet),
                Entry({"id", "name"}, tGig1, <<>>, tLive, <<>>) >>),
      ShapeB(<< Entry({"sets"}, <<>>, <<>>, <<>>, OneSet) >>) }

\* load_setlists: the collection made of one entry of "setlists"
LegacyCollection(sl) ==
    [keys |-> {"id", "type", "name", "notes", "sets"},
     id |-> Or(Or(EntryGet(sl, "id"), EntryGet(sl, "name")), <<>>),
     type |-> tGig,
     name |-> Or(Or(EntryGet(sl, "name"), EntryGet(sl, "id")), tUnnamed),
     notes |-> IF "notes" \in sl.keys THEN sl.notes ELSE <<>>,
     sets |-> IF "sets" \in sl.keys THEN sl.sets ELSE <<>>]

\* what a load gives: the document, or the exception it raised
Loaded(doc) == [raised |-> "", doc |-> doc]
Raised(exc) == [raised |-> exc, doc |-> NoDoc]

\* migrate_setlists_to_songuid.load_setlists at time t
load_setlists(content, t) ==
    IF content = NoFile
    THEN Loaded([SetlistDoc({"version", "updated", "collections"}, <<>>, <<>>)
                    EXCEPT !.updated = t])
    ELSE IF content = Unparseable THEN Raised("JSONDecodeError")
    ELSE IF "collections" \in content.keys THEN Loaded(content)
    ELSE IF "setlists" \in content.keys
    THEN Loaded([kind |-> "dict", keys |-> {"version", "updated", "collections"},
                 version |-> IF "version" \in content.keys THEN content.version ELSE 1,
                 updated |-> t,
                 collections |-> [i \in DOMAIN content.setlists |->
                                     LegacyCollection(content.setlists[i])],
                 setlists |-> <<>>])
    ELSE Raised("RuntimeError")

\* consolidate_library.load_setlists at time t: every failure is a RuntimeError
ConsLoadSetlists(content, t) ==
    LET r == load_setlists(content, t)
    IN  IF r.raised # "" THEN Raised("RuntimeError")
        ELSE Loaded([r.doc EXCEPT
                        !.keys = @ \cup {"version", "updated"},
                        !.version = IF "version" \in r.doc.keys THEN @ ELSE 1,
                        !.updated = IF "updated" \in r.doc.keys THEN @ ELSE t])

\* migrate_setlists_v2.main: json.loads and the test of "collections"
V2LoadSetlists(content) ==
    IF content = Unparseable THEN Raised("JSONDecodeError")
    ELSE IF "collections" \notin content.keys THEN Raised("SystemExit")
    ELSE Loaded(content)

(* ------------------------------------------- a whole run of a migrator *)

\* the orders rglob can list n files in
Listings(n) == {s \in [1..n -> 1..n] : \A i, j \in 1..n : s[i] = s[j] => i = j}

\* a complete document left at an output path by an earlier run
Stale == [kind |-> "stale"]

\* the running migrator's loop over the songs of one set, counters carried in acc
MigrateSongs(m, acc, songs) ==
    LET start == LoopStart(acc.changed, acc.removed_dupes, acc.unresolved)
    IN  IF mig = "v2" THEN V2Loop(m, start, songs)
        ELSE LET r == SonguidLoop(m, start, songs)
             IN  [r EXCEPT !.new_list = dedupe_preserve_order(r.new_list)]

\* main(): `for st in col.get("sets", [])`, each st["songs"] replaced
RECURSIVE MigrateSets(_, _, _, _)
MigrateSets(m, acc, sets, out) ==
    IF sets = <<>> THEN [acc |-> acc, sets |-> out]
    ELSE LET r == MigrateSongs(m, acc, Head(sets).songs)
         IN  MigrateSets(m, r, Tail(sets),
                         Append(out, [Head(sets) EXCEPT !.songs = JsonStrings(r.new_list)]))

\* main(): `for col in collections`
RECURSIVE MigrateCollections(_, _, _, _)
MigrateCollections(m, acc, cols, out) ==
    IF cols = <<>> THEN [acc |-> acc, collections |-> out]
    ELSE LET col == Head(cols)
             r == MigrateSets(m, acc, IF "sets" \in col.keys THEN col.sets ELSE <<>>, <<>>)
         IN  MigrateCollections(m, r.acc, Tail(cols),
                 Append(out, IF "sets" \in col.keys THEN [col EXCEPT !.sets = r.sets]
                             ELSE col))

\* a pending write of main(): Path.write_text, or Path.replace of atomic_write_json
WriteText(path, doc) == [op |-> "write_text", path |-> path, doc |-> doc, src |-> ""]
Replace(src, dst) == [op |-> "replace", path |-> dst, doc |-> NoDoc, src |-> src]

\* the sheet the i-th iteration of the lookup loop reads: build_uid_to_songuid takes
\* them as rglob lists them, build_uid_map sorts the paths first
SheetListed(l, i) ==
    LET paths == [n \in DOMAIN l |-> Path(l[n])]
        order == IF mig = "v2" THEN paths ELSE SortedStrs(Range(paths))
    IN  songs_dir[CHOOSE n \in DOMAIN songs_dir : Path(n) = order[i]]

\* the same, for the listing of this run
ListedSheet(i) == SheetListed(listing, i)

\* migrate_setlists_v2.main: `if not IN_FILE.exists(): raise SystemExit`
V2CheckInput ==
    /\ mig = "v2"
    /\ rpc = "start"
    /\ IF fs[IN_FILE] = NoFile
       THEN /\ rpc' = "failed"
            /\ errors' = <<"SystemExit">>
            /\ rc' = 1
       ELSE /\ rpc' = "build"
            /\ UNCHANGED <<errors, rc>>
    /\ UNCHANGED <<songs_dir, listing, fs, data, now, pending, wopen, run, kept,
                   migVars, aggVars,
                   parseVars>>

\* migrate_setlists_to_songuid.main starts with build_uid_map
SonguidStart ==
    /\ mig = "to_songuid"
    /\ rpc = "start"
    /\ rpc' = "build"
    /\ UNCHANGED <<songs_dir, listing, fs, data, errors, rc, now, pending, wopen,
                   run, kept, migVars, aggVars, parseVars>>

\* one sheet of ./songs goes into the lookup
RunBuildStep ==
    /\ rpc = "build"
    /\ nsheets < Len(songs_dir)
    /\ BuildUidMapStep(ListedSheet(nsheets + 1))

\* every sheet of ./songs has been read
RunBuildDone ==
    /\ rpc = "build"
    /\ nsheets = Len(songs_dir)
    /\ BuildUidMapDone

\* main(): the setlist document is read, and normalised or rejected
RunLoad ==
    /\ rpc = "build"
    /\ mpc = "sets"
    /\ LET r == IF mig = "v2" THEN V2LoadSetlists(fs[IN_FILE])
                ELSE load_setlists(fs[IN_FILE], now)
       IN  IF r.raised # ""
           THEN /\ rpc' = "failed"
                /\ errors' = <<r.raised>>
                /\ rc' = 1
                /\ UNCHANGED data
           ELSE /\ rpc' = "loaded"
                /\ data' = r.doc
                /\ UNCHANGED <<errors, rc>>
    /\ UNCHANGED <<songs_dir, listing, fs, now, pending, wopen, run, kept, migVars,
                   aggVars,
                   parseVars>>

\* main(): every set of every collection is rewritten, then the output is made up
RunMigrate ==
    /\ rpc = "loaded"
    /\ mig \in {"v2", "to_songuid"}
    /\ LET r == MigrateCollections(uid_map, LoopStart(0, 0, 0), data.collections, <<>>)
           out == IF mig = "v2"
                  THEN [kind |-> "dict", keys |-> {"version", "contract", "collections"},
                        version |-> 2, updated |-> 0, collections |-> r.collections,
                        setlists |-> <<>>]
                  ELSE [data EXCEPT !.collections = r.collections,
                                    !.keys = @ \cup {"updated"}, !.updated = now]
           report == [kind |-> "log", changed |-> r.acc.changed,
                      unknown_refs |-> r.acc.unresolved, ts |-> now]
       IN  /\ data' = out
           /\ changed' = r.acc.changed
           /\ removed_dupes' = r.acc.removed_dupes
           /\ unresolved' = r.acc.unresolved
           /\ pending' = IF mig = "v2" THEN <<WriteText(OUT_FILE, out)>>
                         ELSE <<WriteText(OUT_MIGRATED, out),
                                WriteText(OUT_MIGRATE_LOG, report)>>
    /\ rpc' = "write"
    /\ UNCHANGED <<songs_dir, listing, fs, errors, rc, now, wopen, mig, mpc, nsheets,
                   uid_map, songs_in, st_songs, refs_in, refs_out, strs_in,
                   uid_unmapped_in, unknown_in, run, kept, aggVars, parseVars>>

(* --------------------------------------------------- writing the files *)

\* Path.write_text: open(path, "w") truncates the file
WriteTextOpen ==
    /\ rpc = "write"
    /\ pending # <<>>
    /\ Head(pending).op = "write_text"
    /\ ~wopen
    /\ wopen' = TRUE
    /\ fs' = [fs EXCEPT ![Head(pending).path] = Truncated]
    /\ UNCHANGED <<rpc, songs_dir, listing, data, errors, rc, now, pending, run, kept,
                   migVars, aggVars, parseVars>>

\* Path.write_text: the text is written and the file closed
WriteTextClose ==
    /\ rpc = "write"
    /\ wopen
    /\ wopen' = FALSE
    /\ fs' = [fs EXCEPT ![Head(pending).path] = Head(pending).doc]
    /\ pending' = Tail(pending)
    /\ UNCHANGED <<rpc, songs_dir, listing, data, errors, rc, now, run, kept, migVars,
                   aggVars,
                   parseVars>>

\* Path.write_text raises OSError after the open: the run dies with a traceback
WriteTextFails ==
    /\ rpc = "write"
    /\ wopen
    /\ wopen' = FALSE
    /\ rpc' = "failed"
    /\ errors' = Append(errors, "OSError")
    /\ rc' = 1
    /\ UNCHANGED <<songs_dir, listing, fs, data, now, pending, run, kept, migVars,
                   aggVars,
                   parseVars>>

\* atomic_write_json: tmp.replace(path)
ReplaceFile ==
    /\ rpc = "write"
    /\ pending # <<>>
    /\ Head(pending).op = "replace"
    /\ fs' = [fs EXCEPT ![Head(pending).path] = fs[Head(pending).src],
                        ![Head(pending).src] = NoFile]
    /\ pending' = Tail(pending)
    /\ UNCHANGED <<rpc, songs_dir, listing, data, errors, rc, now, wopen, run, kept,
                   migVars, aggVars, parseVars>>

\* main() returns
RunExits ==
    /\ rpc = "write"
    /\ pending = <<>>
    /\ rpc' = "done"
    /\ rc' = IF errors # <<>> THEN 1 ELSE 0
    /\ UNCHANGED <<songs_dir, listing, fs, data, errors, now, pending, wopen, run, kept,
                   migVars, aggVars, parseVars>>

(* ---------------------------------------- a whole run of a consolidator *)

\* consolidate(): songs_index
SongsIndex(t, songs) ==
    [kind |-> "songs_index", generated |-> t, songCount |-> Len(songs), songs |-> songs]

\* consolidate(): library_index
LibraryIndex(t, songs, collections) ==
    [kind |-> "library_index", version |-> 1, lastConsolidated |-> t, songs |-> songs,
     collections |-> collections]

\* consolidate(): log
ConsLog(t, errs, found, indexed) ==
    [kind |-> "log", started |-> t, errors |-> errs, choFilesFound |-> found,
     songsIndexed |-> indexed]

\* consolidate_library_v2.main: songs_index_v2
SongsIndexV2(t, songs) ==
    [kind |-> "songs_index_v2", version |-> 2, generated_at |-> t,
     songCount |-> Len(songs), songs |-> songs]

\* consolidate_library_v2.main: lib_index_v2
LibIndexV2(t, songs, collections) ==
    [kind |-> "lib_index_v2", version |-> 2, generated_at |-> t, songs |-> songs,
     collections |-> collections]

\* consolidate_library_v2.main: the collections carried over from library.index.json
LegacyCollections(content) ==
    IF content.kind = "library_index" THEN content.collections ELSE <<>>

\* atomic_write_json(path, data): the text goes to path.tmp, which then replaces path
atomic_write_json(path, tmp, doc) == <<WriteText(tmp, doc), Replace(tmp, path)>>

\* consolidate(): the `{}` returned for both indexes when ./songs is missing
EmptyObject == [kind |-> "empty"]

\* main() without its test of log["errors"]
MainWritesAlways(errs, songsdoc, librarydoc, log) ==
    <<WriteText(OUT_SONGS, songsdoc), WriteText(OUT_LIBRARY, librarydoc),
      WriteText(OUT_LOG, log)>>

\* consolidate_library.main: what is written once consolidate() has returned
MainWrites(errs, songsdoc, librarydoc, log) ==
    IF errs # <<>> THEN <<WriteText(OUT_LOG, log)>>
    ELSE <<WriteText(OUT_SONGS, songsdoc), WriteText(OUT_LIBRARY, librarydoc),
           WriteText(OUT_LOG, log)>>

\* consolidate(): `if not songs_dir.exists()`, and the same test of v2's main()
RunCheckSongsDir ==
    /\ prog \in {"consolidate", "v2"}
    /\ rpc = "start"
    /\ IF songs_dir = Missing
       THEN IF prog = "consolidate"
            THEN /\ errors' = Append(errors, "Missing songs folder")
                 /\ pending' = MainWrites(errors', EmptyObject, EmptyObject,
                                          ConsLog(now, errors', 0, 0))
                 /\ rpc' = "write"
                 /\ UNCHANGED rc
            ELSE /\ rpc' = "failed"
                 /\ rc' = 2
                 /\ UNCHANGED <<errors, pending>>
       ELSE /\ rpc' = IF prog = "consolidate" THEN "load" ELSE "scan"
            /\ UNCHANGED <<errors, rc, pending>>
    /\ UNCHANGED <<songs_dir, listing, fs, data, now, wopen, run, kept, migVars, aggVars,
                   parseVars>>

\* consolidate(): "Load setlists (authoritative)"
ConsLoad ==
    /\ prog = "consolidate"
    /\ rpc = "load"
    /\ LET r == ConsLoadSetlists(fs[IN_FILE], now)
       IN  IF r.raised # ""
           THEN /\ errors' = Append(errors, r.raised)
                /\ data' = [SetlistDoc({"version", "updated", "collections"}, <<>>, <<>>)
                               EXCEPT !.updated = now]
           ELSE /\ data' = r.doc
                /\ UNCHANGED errors
    /\ rpc' = "scan"
    /\ UNCHANGED <<songs_dir, listing, fs, rc, now, pending, wopen, run, kept, migVars,
                   aggVars, parseVars>>

\* the scan reads the next sheet of the sorted listing
RunScanStep ==
    /\ rpc = "scan"
    /\ Len(cho_files) < Len(songs_dir)
    /\ \/ ConsolidateSheet(ListedSheet(Len(cho_files) + 1))
       \/ V2Sheet(ListedSheet(Len(cho_files) + 1))

\* every sheet has been scanned: the song list is made
RunScanDone ==
    /\ rpc = "scan"
    /\ Len(cho_files) = Len(songs_dir)
    /\ \/ ConsolidateFinish
       \/ V2Finish

\* consolidate() returns and main() chooses what to write
ConsReturn ==
    /\ prog = "consolidate"
    /\ rpc = "scan"
    /\ apc = "done"
    /\ rpc' = "write"
    /\ LET log == ConsLog(now, errors, Len(cho_files), Len(songs_out))
       IN  pending' = MainWrites(errors, SongsIndex(now, songs_out),
                                 LibraryIndex(now, songs_out, data.collections), log)
    /\ UNCHANGED <<songs_dir, listing, fs, data, errors, rc, now, wopen, run, kept,
                   migVars, aggVars, parseVars>>

\* consolidate_library_v2.main: the two index documents are made up
V2Return ==
    /\ prog = "v2"
    /\ rpc = "scan"
    /\ apc = "done"
    /\ rpc' = "write"
    /\ pending' =
          atomic_write_json(OUT_SONGS_V2, OUT_SONGS_V2_TMP, SongsIndexV2(now, songs_out))
          \o atomic_write_json(OUT_LIB_V2, OUT_LIB_V2_TMP,
                 LibIndexV2(now, songs_out, LegacyCollections(fs[OUT_LIBRARY])))
    /\ UNCHANGED <<songs_dir, listing, fs, data, errors, rc, now, wopen, run, kept,
                   migVars, aggVars, parseVars>>

\* the script is run again, later or at once, over the same files
SecondRun ==
    /\ prog \in {"consolidate", "v2"}
    /\ rpc = "done"
    /\ run = 1
    /\ run' = 2
    /\ kept' = fs
    /\ rpc' = "start"
    /\ listing' \in Listings(Len(songs_dir))
    /\ now' \in {now, now + 1}
    /\ errors' = <<>>
    /\ rc' = NoRc
    /\ data' = NoDoc
    /\ apc' = "scan"
    /\ cho_files' = <<>>
    /\ song_keys' = <<>>
    /\ songs_by_uid' = EmptyDict
    /\ missing_uid_files' = <<>>
    /\ uidCollisionsPersona' = 0
    /\ uidsMissing' = 0
    /\ warnings' = <<>>
    /\ by_song' = EmptyDict
    /\ orphan' = 0
    /\ orphan_sheets' = <<>>
    /\ songs_out' = <<>>
    /\ UNCHANGED <<prog, songs_dir, fs, pending, wopen, migVars, parseVars>>

(* ------------------------------------------------------ the whole runs *)

\* the sheets of ./songs in the runs of the migrators: two of them carry the same uid
\* with different song_uid values
RunMigSheetPool == MigSheetPool \cup { [uid |-> tUid1, song_uid |-> tSongB] }

\* a migrator is started in a repository
InitRunMigrator ==
    /\ mig \in {"v2", "to_songuid"}
    /\ mpc = "build"
    /\ nsheets = 0
    /\ uid_map = EmptyDict
    /\ songs_in = <<>>
    /\ st_songs = <<>>
    /\ changed = 0
    /\ removed_dupes = 0
    /\ unresolved = 0
    /\ refs_in = 0
    /\ refs_out = 0
    /\ strs_in = 0
    /\ uid_unmapped_in = 0
    /\ unknown_in = 0
    /\ AggIdle
    /\ songs_dir \in SeqsUpTo(RunMigSheetPool, MaxSheets)

\* the sheets of ./songs in the runs of the consolidators
RunSheetPool ==
    { [NoTags EXCEPT !.song_uid = tSongA, !.uid = tUid1, !.persona = tAdam,
                     !.title = tTest],
      [NoTags EXCEPT !.song_uid = tSongA, !.uid = tUid1, !.persona = tPete,
                     !.title = tTest, !.key = <<"G">>],
      [NoTags EXCEPT !.song_uid = tSongB, !.uid = tUid2, !.persona = tPete,
                     !.title = tUp, !.key = <<"E">>] }

\* a consolidator is started in a repository
InitRunConsolidator ==
    /\ prog \in {"consolidate", "v2"}
    /\ apc = "scan"
    /\ cho_files = <<>>
    /\ song_keys = <<>>
    /\ songs_by_uid = EmptyDict
    /\ missing_uid_files = <<>>
    /\ uidCollisionsPersona = 0
    /\ uidsMissing = 0
    /\ warnings = <<>>
    /\ by_song = EmptyDict
    /\ orphan = 0
    /\ orphan_sheets = <<>>
    /\ songs_out = <<>>
    /\ MigIdle
    /\ songs_dir \in SeqsUpTo(RunSheetPool, MaxSheets) \cup {Missing}

InitRun ==
    /\ InitRunMigrator \/ InitRunConsolidator
    /\ rpc = "start"
    /\ listing \in Listings(Len(songs_dir))
    /\ \E input \in SetlistFilePool, old \in {NoFile, Stale} :
          fs = [p \in LibraryPaths |-> IF p = IN_FILE THEN input ELSE old]
    /\ data = NoDoc
    /\ errors = <<>>
    /\ rc = NoRc
    /\ now = 1
    /\ pending = <<>>
    /\ wopen = FALSE
    /\ run = 1
    /\ kept = EmptyDict
    /\ ParseIdle

NextRun ==
    \/ V2CheckInput
    \/ SonguidStart
    \/ RunBuildStep
    \/ RunBuildDone
    \/ RunLoad
    \/ RunMigrate
    \/ WriteTextOpen
    \/ WriteTextClose
    \/ WriteTextFails
    \/ ReplaceFile
    \/ RunExits
    \/ RunCheckSongsDir
    \/ ConsLoad
    \/ RunScanStep
    \/ RunScanDone
    \/ ConsReturn
    \/ V2Return
    \/ SecondRun

SpecRun == InitRun /\ [][NextRun]_vars

(* ------------------------------------------ claims about the whole runs *)

\* library/setlists.json holds a legacy shape-B document {version, setlists}
InputIsShapeB ==
    /\ fs[IN_FILE].kind = "dict"
    /\ "setlists" \in fs[IN_FILE].keys
    /\ "collections" \notin fs[IN_FILE].keys

\* the document has been loaded and no reference has been looked at yet
JustLoaded ==
    \/ mig \in {"v2", "to_songuid"} /\ rpc = "loaded"
    \/ prog = "consolidate" /\ rpc = "scan" /\ cho_files = <<>>

\* collection col is entry sl made canonical: type "gig", id and name each
\* defaulted to the other, the sets as they were
CollectionOf(sl, col) ==
    /\ col.type = tGig
    /\ (sl.keys \cap {"id", "name"} # {}) =>
          /\ col.id = Or(EntryGet(sl, "id"), EntryGet(sl, "name"))
          /\ col.name = Or(EntryGet(sl, "name"), EntryGet(sl, "id"))
    /\ "sets" \in sl.keys => col.sets = sl.sets

\* C11: both setlist migrators and consolidate() accept a legacy shape-B document and,
\* before any reference is substituted, hold it as {collections: [...]} with one
\* collection per entry of setlists, in the same order, type "gig", id = the entry's id
\* or else its name, name = the entry's name or else its id, and the entry's sets.
C11_LegacyShapeNormalised ==
    (rpc # "idle" /\ prog # "v2" /\ InputIsShapeB) =>
        /\ Range(errors) \cap {"SystemExit", "RuntimeError", "JSONDecodeError"} = {}
        /\ JustLoaded =>
              /\ "collections" \in data.keys
              /\ Len(data.collections) = Len(fs[IN_FILE].setlists)
              /\ \A i \in DOMAIN data.collections :
                    CollectionOf(fs[IN_FILE].setlists[i], data.collections[i])

\* a setlist migrator is running or has run
MigratorRun == rpc # "idle" /\ mig \in {"v2", "to_songuid"}

\* C12: in every run of a setlist migrator, failing or not, library/setlists.json
\* keeps its content: every write goes to another path and no step changes the input.
C12_InputNeverWritten ==
    /\ [](MigratorRun => \A i \in DOMAIN pending : pending[i].path # IN_FILE)
    /\ [][MigratorRun => fs'[IN_FILE] = fs[IN_FILE]]_vars

\* migrate_setlists_v2 has ended well: setlists.v2.json holds the migrated document,
\* setlists.json still the canonical-shape document with its three uid references
C12_Witness ==
    /\ mig = "v2"
    /\ rpc = "done"
    /\ rc = 0
    /\ fs[OUT_FILE].kind = "dict"
    /\ fs[OUT_FILE].collections[1].sets[1].songs = <<StrRef(tSongA), StrRef(tUid2)>>
    /\ fs[IN_FILE] \in SetlistFilePool
    /\ fs[IN_FILE].collections[1].sets = OneSet

\* the paths the scripts leave their documents at
FinalPaths ==
    {OUT_FILE, OUT_MIGRATED, OUT_MIGRATE_LOG, OUT_SONGS, OUT_LIBRARY, OUT_LOG,
     OUT_SONGS_V2, OUT_LIB_V2}

\* C13: whenever a reader opens the final path of an output document (song index,
\* library index, diagnostics log, migrated setlist) while a script runs, it finds the
\* complete previous content or the complete new content, never a file that is only
\* partly written.
C13_ReaderSeesWholeDocuments ==
    rpc # "idle" => \A p \in FinalPaths : fs[p] # Truncated

\* the setlist document is there but cannot be used
InputMalformed ==
    \/ fs[IN_FILE] = Unparseable
    \/ /\ fs[IN_FILE].kind = "dict"
       /\ fs[IN_FILE].keys \cap {"collections", "setlists"} = {}

\* C14: a run of consolidate_library.main over an existing songs folder and a setlist
\* document that is unparseable or of neither supported shape still ends with the song
\* index written, a library index with an empty collections list written, and the
\* error recorded in the diagnostics document.
C14_SongOnlyIndexOnBadSetlists ==
    (prog = "consolidate" /\ run = 1 /\ rpc = "done" /\ songs_dir # Missing
        /\ InputMalformed)
    => /\ fs[OUT_SONGS].kind = "songs_index"
       /\ fs[OUT_LIBRARY].kind = "library_index"
       /\ fs[OUT_LIBRARY].collections = <<>>
       /\ fs[OUT_LOG].kind = "log"
       /\ fs[OUT_LOG].errors # <<>>

SongsDirAbsent == prog = "consolidate" /\ rpc # "idle" /\ songs_dir = Missing

\* C15: in a run of consolidate_library.main without a songs folder no step writes
\* songs.index.json or library.index.json (what was at those paths stays), and when
\* main returns consolidate.log.json holds the error and the outcome is not zero.
C15_AbsentSongsDirWritesLogOnly ==
    /\ [][SongsDirAbsent => /\ fs'[OUT_SONGS] = fs[OUT_SONGS]
                            /\ fs'[OUT_LIBRARY] = fs[OUT_LIBRARY]]_vars
    /\ [](SongsDirAbsent =>
            /\ \A i \in DOMAIN pending : pending[i].path \notin {OUT_SONGS, OUT_LIBRARY}
            /\ rpc = "done" => /\ fs[OUT_LOG].kind = "log"
                               /\ "Missing songs folder" \in Range(fs[OUT_LOG].errors)
                               /\ rc = 1)

C15_Witness ==
    /\ SongsDirAbsent
    /\ rpc = "done"
    /\ rc = 1
    /\ fs[OUT_SONGS] = Stale
    /\ fs[OUT_LIBRARY] = Stale
    /\ fs[OUT_LOG].kind = "log"
    /\ fs[OUT_LOG].errors = <<"Missing songs folder">>

\* the index documents of the consolidator that ran
IndexPaths ==
    IF prog = "consolidate" THEN {OUT_SONGS, OUT_LIBRARY} ELSE {OUT_SONGS_V2, OUT_LIB_V2}

\* C16: when a consolidator has run a second time over the same sheet files and the
\* same setlist input, at whatever time and with whatever enumeration order, its song
\* index and library index documents are those the first run left.
C16_RerunGivesSameDocuments ==
    (prog \in {"consolidate", "v2"} /\ run = 2 /\ rpc = "done")
    => \A p \in IndexPaths : fs[p] = kept[p]

(* ------------------------------------------ the strict parse_tag_block *)

\* the place of the first "\n" of s, 0 when it has none
RECURSIVE NewlineFrom(_, _)
NewlineFrom(s, i) ==
    IF i > Len(s) THEN 0 ELSE IF s[i] = "\n" THEN i ELSE NewlineFrom(s, i + 1)

\* str.splitlines() of a text whose line ends are "\n"
RECURSIVE SplitLines(_)
SplitLines(t) ==
    IF t = <<>> THEN <<>>
    ELSE LET n == NewlineFrom(t, 1)
         IN  IF n = 0 THEN <<t>>
             ELSE <<SubSeq(t, 1, n - 1)>> \o SplitLines(SubSeq(t, n + 1, Len(t)))

\* "\n".join(ls)
RECURSIVE JoinLines(_)
JoinLines(ls) ==
    IF ls = <<>> THEN <<>>
    ELSE IF Len(ls) = 1 THEN ls[1]
    ELSE ls[1] \o <<"\n">> \o JoinLines(Tail(ls))

NoMatch == [ok |-> FALSE, g1 |-> <<>>, g2 |-> <<>>]

\* TAG_LINE_RE.match(s) for ^\s*\{([^}:]+)\s*:\s*(.*?)\}\s*$ : group 1 runs from the
\* brace to the first colon and holds no closing brace, group 2 from the colon to the
\* last closing brace, less the white space after the colon
TAG_LINE_RE(s) ==
    LET u == Strip(s)
        c == ColonFrom(u, 1)
    IN  IF /\ Len(u) >= 4
           /\ u[1] = "{"
           /\ u[Len(u)] = "}"
           /\ c >= 3
           /\ c < Len(u)
           /\ "}" \notin Range(SubSeq(u, 2, c - 1))
        THEN [ok |-> TRUE, g1 |-> SubSeq(u, 2, c - 1),
              g2 |-> LStrip(SubSeq(u, c + 1, Len(u) - 1))]
        ELSE NoMatch

\* the line the loop of parse_tag_block takes next
NextLine == SplitLines(text)[lineno + 1]

\* `if s == "": continue`
ParseBlank ==
    /\ ppc = "loop"
    /\ lineno < Len(SplitLines(text))
    /\ Strip(NextLine) = <<>>
    /\ lineno' = lineno + 1
    /\ UNCHANGED <<ppc, text, block_tags, migVars, aggVars, runVars>>

\* `if not m: break`
ParseBreak ==
    /\ ppc = "loop"
    /\ lineno < Len(SplitLines(text))
    /\ Strip(NextLine) # <<>>
    /\ ~TAG_LINE_RE(Strip(NextLine)).ok
    /\ ppc' = "done"
    /\ UNCHANGED <<text, lineno, block_tags, migVars, aggVars, runVars>>

\* tags[m.group(1).strip().lower()] = m.group(2).strip()
ParseTag ==
    /\ ppc = "loop"
    /\ lineno < Len(SplitLines(text))
    /\ Strip(NextLine) # <<>>
    /\ LET m == TAG_LINE_RE(Strip(NextLine))
       IN  /\ m.ok
           /\ block_tags' = Put(block_tags, Lower(Strip(m.g1)), Strip(m.g2))
    /\ lineno' = lineno + 1
    /\ UNCHANGED <<ppc, text, migVars, aggVars, runVars>>

\* the lines are used up: `return tags`
ParseReturn ==
    /\ ppc = "loop"
    /\ lineno = Len(SplitLines(text))
    /\ ppc' = "done"
    /\ UNCHANGED <<text, lineno, block_tags, migVars, aggVars, runVars>>

\* lines of sheets: three tags, two of them of one key, a blank, a body line and a
\* tag that is not closed
lTitleA == <<"{", "t", ":", " ", "A", "}">>
lTitleB == <<"{", "T", ":", "B", "}">>
lKeyC == <<"{", "k", " ", ":", " ", "C", " ", "}">>
lBlank == <<" ">>
lBody == <<"x">>
lOpenTag == <<"{", "t", ":", "D">>

ParseLinePool == {lTitleA, lTitleB, lKeyC, lBlank, lBody, lOpenTag}

InitParse ==
    /\ MigIdle
    /\ AggIdle
    /\ RunIdle
    /\ ppc = "loop"
    /\ text \in {JoinLines(ls) : ls \in SeqsUpTo(ParseLinePool, MaxLines)}
    /\ lineno = 0
    /\ block_tags = EmptyDict

NextParse ==
    \/ ParseBlank
    \/ ParseBreak
    \/ ParseTag
    \/ ParseReturn

SpecParse == InitParse /\ [][NextParse]_vars

(* ---------------------------------------------- claims about the parser *)

Lines == SplitLines(text)

TagShaped(i) == TAG_LINE_RE(Lines[i]).ok

\* the first line that is neither blank nor tag-shaped, one past the end when none is
StopLine ==
    LET S == {i \in DOMAIN Lines : Strip(Lines[i]) # <<>> /\ ~TagShaped(i)}
    IN  IF S = {} THEN Len(Lines) + 1 ELSE Least(S)

TagLinesBefore == {i \in 1..(StopLine - 1) : TagShaped(i)}

KeyOf(i) == Lower(Strip(TAG_LINE_RE(Lines[i]).g1))

ValueOf(i) == Strip(TAG_LINE_RE(Lines[i]).g2)

\* the mapping of the tag lines before the stopping line, first occurrence of a key
FirstOccurrenceTags ==
    [k \in {KeyOf(i) : i \in TagLinesBefore} |->
        ValueOf(Least({i \in TagLinesBefore : KeyOf(i) = k}))]

\* C17: what the strict parse_tag_block returns is the mapping made of the tag lines
\* before the first line that is neither blank nor tag-shaped, keys lowercased, values
\* trimmed, and of a key that occurs more than once the value of its first occurrence.
C17_FirstOccurrenceWins ==
    ppc = "done" => block_tags = FirstOccurrenceTags

(* --------------------- claims about the song_uid-keyed aggregators' songs *)

\* the title tag of a sheet as main() reads it, and its artist tag
TitleTag(tags) == Or(Or(tags.title, tags.t), <<>>)
ArtistTag(tags) == Or(Or(tags.artist, tags.a), <<>>)

\* the first scanned sheet of song k with a non-empty title, 0 when none has one
FirstTitled(k) ==
    LET having == {i \in SheetsOf(k) : Truthy(TitleTag(cho_files[i]))}
    IN  IF having = {} THEN 0 ELSE Least(having)

FirstWithArtist(k) ==
    LET having == {i \in SheetsOf(k) : Truthy(ArtistTag(cho_files[i]))}
    IN  IF having = {} THEN 0 ELSE Least(having)

\* C18: in consolidate_library_v2 / _songuid_schema_compatible the canonical title of
\* a song is the first non-empty title tag among its sheets in sorted path order, and
\* its canonical artist the first non-empty artist tag: a first sheet without one does
\* not keep a later sheet's value out.
C18_FirstNonEmptyTitleArtist ==
    prog = "v2" =>
        \A k \in DOMAIN by_song :
            /\ FirstTitled(k) # 0 =>
                   by_song[k].title = TitleTag(cho_files[FirstTitled(k)])
            /\ FirstWithArtist(k) # 0 =>
                   by_song[k].artist = ArtistTag(cho_files[FirstWithArtist(k)])

\* the uid main() reads from the scanned sheet whose path is path
UidOfSheetAt(path) ==
    LET i == CHOOSE j \in DOMAIN cho_files : Path(j) = path
    IN  Strip(Or(cho_files[i].uid, <<>>))

\* the emitted song of song_uid k
EmittedSong(k) == CHOOSE i \in DOMAIN songs_out : songs_out[i].song_uid = k

\* C20: in consolidate_library_v2 / _songuid_schema_compatible, for every song and
\* every key k of its files map, sheet_uids[k], when present, is the uid of the very
\* sheet whose path is files[k]; and the uid emitted for the song, when k is the
\* representative persona, is that sheet's uid.
C20_SheetUidsFollowFiles ==
    prog = "v2" =>
        \A s \in DOMAIN by_song :
            \A k \in DOMAIN by_song[s].files :
                /\ k \in DOMAIN by_song[s].sheet_uids =>
                       by_song[s].sheet_uids[k] = UidOfSheetAt(by_song[s].files[k])
                /\ (apc = "done" /\ k = V2RepPersona(songs_out[EmittedSong(s)].personas))
                       => songs_out[EmittedSong(s)].uid
                              = UidOfSheetAt(by_song[s].files[k])

(* ----------------------------------- claims about the enumeration order *)

\* the lookup a migrator builds when rglob lists the files of ./songs in order l
RECURSIVE LookupFrom(_, _, _)
LookupFrom(m, l, i) ==
    IF i > Len(l) THEN m
    ELSE LookupFrom(IF mig = "v2" THEN V2MapSheet(m, SheetListed(l, i))
                    ELSE SonguidMapSheet(m, SheetListed(l, i)), l, i + 1)

LookupBuilt == mig \in {"v2", "to_songuid"} /\ rpc # "idle" /\ mpc # "build"

\* C19: the uid -> song_uid lookup a migrator has built is the one it would have built
\* from the same sheet files in any other enumeration order, also when two sheets carry
\* the same uid with different song_uid values.
C19_LookupIgnoresListingOrder ==
    LookupBuilt =>
        \A l \in Listings(Len(songs_dir)) : uid_map = LookupFrom(EmptyDict, l, 1)

(* --------------------------------- claims about the counts of consolidate() *)

\* the entries of the files maps of the first n songs of the index, taken together
RECURSIVE FilesEntries(_)
FilesEntries(n) ==
    IF n = 0 THEN 0
    ELSE Cardinality(DOMAIN songs_by_uid[song_keys[n]].files) + FilesEntries(n - 1)

\* C21: when consolidate() has finished its scan of an existing songs folder, every
\* scanned sheet is accounted for exactly once: choFilesFound is uidsMissing plus
\* uidCollisionsPersona plus the number of entries of all songs' files maps.
C21_EverySheetAccountedFor ==
    (prog = "consolidate" /\ apc = "done")
    => Len(cho_files) = uidsMissing + uidCollisionsPersona + FilesEntries(Len(song_keys))

====
